---- MODULE Spec2Model ----
(***************************************************************************)
(* The book bot of book_bot/telegram_bot_with_db.py as a state machine.    *)
(*                                                                         *)
(* Handlers are coroutines: a handler runs without interruption from one   *)
(* suspension point (an await that really yields: Telegram I/O, aiosqlite) *)
(* to the next, and other handlers may run in between.  Every action below *)
(* is one such uninterrupted stretch of one handler.  Redis calls are      *)
(* synchronous, so they never separate two actions.                        *)
(*                                                                         *)
(* Text is a sequence of symbols.  A symbol is a one-character string,     *)
(* except that each of the five Russian labels and each fixed reply of the *)
(* bot is one atomic symbol with an ASCII name.                            *)
(***************************************************************************)
EXTENDS Integers, Sequences, FiniteSets, Bags, TLC

VARIABLES
    current_db_key,  \* state.current_db_key: None or the selected key
    db_keys,         \* Redis "db_keys": the registry, key -> db file
    books,           \* Redis "book:<id>": id -> [value, ttl] and history
    tables,          \* SQLite: db file -> rows of its books table
    files,           \* scratch images on disk (file ids)
    next_book_id,    \* uuid4() of handle_photo: the next fresh value
    tasks,           \* bag of handlers suspended at an await
    out,             \* what the last step sent to Telegram
    expired,         \* history: the ids staged TEMP_BOOK_TTL or longer ago
    events,          \* updates received from Telegram so far
    room,            \* how many handlers may be suspended at once in this run
    parse_input,     \* a text handed to parse_book_data on its own
    parse_result,    \* what parse_book_data made of it
    failed,          \* history: the ids a confirm of which failed at the INSERT
    mem              \* the bot of main.py, run side by side

vars == <<current_db_key, db_keys, books, tables, files, next_book_id, tasks,
          out, expired, events, room, parse_input, parse_result, failed, mem>>

---------------------------------------------------------------------------
(* Bounds of the model *)

MaxEvents == 4      \* updates received in one run
MaxTasks == 1       \* handlers suspended at the same time
RaceTasks == 2      \* the same, in the runs that look for races
TicksPerTTL == 1    \* clock steps that make one TTL
MaxLines == 2       \* lines of a text handed to parse_book_data
MaxYear == 37       \* largest year of a rendered record

(* Program constants *)

TEMP_BOOK_TTL == 3600
ADMIN_USER_ID == 1     \* the ADMIN_USER_ID of the environment, as the tests set it

None == "None"      \* no key selected
NoPath == <<>>      \* a db path that `not db_path` rejects
NoId == 0           \* no uuid
EmptyDict == <<>>

Users == {1, 2}
Keys == {"K1", "K2"}
FileIds == {"f1"}
TickLen == TEMP_BOOK_TTL \div TicksPerTTL

(* /add_key file arguments: one lacking the .db suffix, one having it *)
DbFileArgs == {<<"b">>, <<"b", ".db">>}

---------------------------------------------------------------------------
(* Text *)

LblAuthor == "Author"
LblTitle == "Title"
LblYear == "Year"
LblCategory == "Category"
LblPublisher == "Publisher"

MSG_NO_DB == "connect to a database first with /start <key>"
MSG_NEED_KEY == "please give a database key"
MSG_BAD_KEY == "wrong database key"
MSG_CONNECTED == "connected to the database with key"
MSG_TOTAL == "books stored in the database"
MSG_ADMIN_ONLY == "this command is for the administrator only"
MSG_ADD_USAGE == "give a key and a db file name"
MSG_KEY_ADDED == "key added with db file"
MSG_IMAGES_ERROR == "an error occurred while processing the images"
MSG_REDIS_SAVE_ERROR == "error saving the book data"
MSG_NOT_FOUND == "error: book data not found"
MSG_SAVED == "book saved in the database"
MSG_SAVE_FAILED == "error saving the book"
MSG_SAVE_EXCEPTION == "an error occurred while saving"

Whitespace == {" ", "\n"}
Digits == {"0", "1", "2", "3", "4", "5", "6", "7", "8", "9"}
(* characters str.isdigit accepts although int() rejects them *)
DigitLike == {"sup2"}

DigitValue(c) ==
    CASE c = "0" -> 0 [] c = "1" -> 1 [] c = "2" -> 2 [] c = "3" -> 3
      [] c = "4" -> 4 [] c = "5" -> 5 [] c = "6" -> 6 [] c = "7" -> 7
      [] c = "8" -> 8 [] c = "9" -> 9

isdigit(s) == Len(s) > 0 /\ \A i \in 1..Len(s) : s[i] \in Digits \cup DigitLike

(* whether int(s) returns: s is a non-empty run of decimal digits *)
int_accepts(s) == Len(s) > 0 /\ \A i \in 1..Len(s) : s[i] \in Digits

RECURSIVE int(_)
int(s) ==
    IF Len(s) = 1 THEN DigitValue(s[1])
    ELSE 10 * int(SubSeq(s, 1, Len(s) - 1)) + DigitValue(s[Len(s)])

RECURSIVE strip(_)
strip(s) ==
    IF Len(s) = 0 THEN s
    ELSE IF s[1] \in Whitespace THEN strip(Tail(s))
    ELSE IF s[Len(s)] \in Whitespace THEN strip(SubSeq(s, 1, Len(s) - 1))
    ELSE s

(* s.split('\n'): the pieces between newlines, empty pieces kept *)
RECURSIVE split_lines(_)
split_lines(s) ==
    IF \A i \in 1..Len(s) : s[i] # "\n" THEN <<s>>
    ELSE LET i == CHOOSE j \in 1..Len(s) :
                      s[j] = "\n" /\ \A k \in 1..(j - 1) : s[k] # "\n"
         IN  <<SubSeq(s, 1, i - 1)>> \o split_lines(SubSeq(s, i + 1, Len(s)))

(* positions where ': ' starts in a line *)
SepPositions(line) ==
    {i \in 1..(Len(line) - 1) : line[i] = ":" /\ line[i + 1] = " "}

(* a split at the last ': ' of the line *)
LastSep(line) ==
    CHOOSE i \in SepPositions(line) : \A j \in SepPositions(line) : i >= j

FirstSep(line) ==
    CHOOSE i \in SepPositions(line) : \A j \in SepPositions(line) : i <= j

Put(d, k, v) == [x \in DOMAIN d \cup {k} |-> IF x = k THEN v ELSE d[x]]

Get(d, k, default) == IF k \in DOMAIN d THEN d[k] ELSE default

(* one iteration of the loop of parse_book_data.  The result so far is
   [raised, data]: raised is set when int() raises ValueError, which nothing
   in parse_book_data catches *)
parse_line(acc, line) ==
    IF acc.raised \/ SepPositions(line) = {} THEN acc
    ELSE LET i == FirstSep(line)
             key == SubSeq(line, 1, i - 1)
             value == SubSeq(line, i + 2, Len(line))
             book_data == acc.data
         IN  IF key = <<LblAuthor>>
               THEN [acc EXCEPT !.data = Put(book_data, "author", value)]
             ELSE IF key = <<LblTitle>>
               THEN [acc EXCEPT !.data = Put(book_data, "title", value)]
             ELSE IF key = <<LblYear>>
               THEN IF isdigit(value)
                    THEN IF int_accepts(value)
                         THEN [acc EXCEPT !.data =
                                  Put(book_data, "publication_year", int(value))]
                         ELSE [acc EXCEPT !.raised = TRUE]
                    ELSE [acc EXCEPT !.data = Put(book_data, "publication_year", 0)]
             ELSE IF key = <<LblCategory>>
               THEN [acc EXCEPT !.data = Put(book_data, "category", value)]
             ELSE IF key = <<LblPublisher>>
               THEN [acc EXCEPT !.data = Put(book_data, "publisher", value)]
             ELSE acc

RECURSIVE parse_lines(_, _)
parse_lines(acc, lines) ==
    IF Len(lines) = 0 THEN acc
    ELSE parse_lines(parse_line(acc, Head(lines)), Tail(lines))

parse_book_data(text) ==
    parse_lines([raised |-> FALSE, data |-> EmptyDict], split_lines(strip(text)))

(* json.dumps / json.loads of a dict of strings and integers: the encoded
   value is a non-empty string that decodes to the same dict *)
json_dumps(d) == [json |-> d]
json_loads(s) == s.json

(* str(n) and f"{n}" of an integer *)
str(n) == ToString(n)

---------------------------------------------------------------------------
(* What the extraction service may answer *)

TextBook ==
    <<LblAuthor, ":", " ", "T", "\n",
      LblTitle, ":", " ", "H", "\n",
      LblYear, ":", " ", "3", "7">>

TextBadYear == <<LblYear, ":", " ", "sup2">>

ExtractionTexts == {TextBook, TextBadYear}

---------------------------------------------------------------------------
(* Helpers of the state machine *)

(* A suspended handler.  by is history: who sent the photo the record of a
   save handler came from. *)
Task(kind, pc, user, key, loc, fid, id, data, by) ==
    [kind |-> kind, pc |-> pc, user |-> user, key |-> key, loc |-> loc,
     fid |-> fid, id |-> id, data |-> data, by |-> by]

(* what one step sends: a reply (text, with the Save button for pending id
   markup) and whether callback.answer() ran.  about is the pending id a
   save handler is working on *)
Sent(kind, text, markup, answered) ==
    [kind |-> kind, about |-> NoId, text |-> text, markup |-> markup,
     answered |-> answered]

SentAbout(book_id, text, answered) ==
    [kind |-> "save", about |-> book_id, text |-> text, markup |-> NoId,
     answered |-> answered]

Silent == Sent("none", <<>>, NoId, FALSE)

Running == BagToSet(tasks)
Spawn(t) == tasks (+) SetToBag({t})
Finish(t) == tasks (-) SetToBag({t})
Continue(t, pc) == (tasks (-) SetToBag({t})) (+) SetToBag({[t EXCEPT !.pc = pc]})
HasRoom == BagCardinality(tasks) < room /\ events < MaxEvents

RECURSIVE SumLen(_, _)
SumLen(f, S) ==
    IF S = {} THEN 0
    ELSE LET x == CHOOSE y \in S : TRUE IN Len(f[x]) + SumLen(f, S \ {x})

(* rows in all tables together *)
TotalRows == SumLen(tables, DOMAIN tables)

(* load_db_keys: the stored registry, or {} when Redis fails *)
load_db_keys == {db_keys, EmptyDict}

(* save_db_keys: the registry after the call; a Redis error is only logged *)
save_db_keys(new_keys) == {new_keys, db_keys}

(* a path lookup that takes some bound key instead of the selected one *)
get_current_db_path_of_some_key(loaded) ==
    IF current_db_key # None /\ loaded # EmptyDict
    THEN loaded[CHOOSE k \in DOMAIN loaded : \A j \in DOMAIN loaded : k = j \/ k # current_db_key]
    ELSE NoPath

(* get_current_db_path, given what load_db_keys returned *)
get_current_db_path(loaded) ==
    IF current_db_key # None THEN Get(loaded, current_db_key, NoPath) ELSE NoPath

(* an init_db that creates the table anew *)
init_db_recreating(db_path) ==
    {[f \in DOMAIN tables \cup {db_path} |->
         IF f = db_path THEN <<>> ELSE tables[f]],
     tables}

(* init_db: the tables after the call; an aiosqlite error is only logged *)
init_db(db_path) ==
    {IF db_path \in DOMAIN tables THEN tables
     ELSE [f \in DOMAIN tables \cup {db_path} |->
              IF f = db_path THEN <<>> ELSE tables[f]],
     tables}

(* db_file += '.db' unless it ends with it *)
with_db_suffix(db_file) ==
    IF db_file[Len(db_file)] = ".db" THEN db_file ELSE db_file \o <<".db">>

(* process_images: the model's answer, or the fixed text after an error *)
process_images == ExtractionTexts \cup {<<MSG_IMAGES_ERROR>>}

(* a staging that writes the entry with twice the TTL *)
setex_twice_ttl(id, value, by, at) ==
    [i \in DOMAIN books \cup {id} |->
        IF i = id
        THEN [value |-> value, ttl |-> 2 * TEMP_BOOK_TTL, by |-> by, at |-> at,
              age |-> 0]
        ELSE books[i]]

(* a staging that writes the entry under another key than the one the
   Save button will carry *)
setex_other_key(id, value, by, at) ==
    [i \in DOMAIN books \cup {id + 1} |->
        IF i = id + 1
        THEN [value |-> value, ttl |-> TEMP_BOOK_TTL, by |-> by, at |-> at,
              age |-> 0]
        ELSE books[i]]

(* redis_client.setex(f"book:{id}", TEMP_BOOK_TTL, value).  ttl is the time
   the entry has left.  History, not in Redis: by, the user whose photo is
   staged, at, the location the selected key was bound to at the staging,
   and age, the time since the staging *)
setex(id, value, by, at) ==
    [i \in DOMAIN books \cup {id} |->
        IF i = id
        THEN [value |-> value, ttl |-> TEMP_BOOK_TTL, by |-> by, at |-> at,
              age |-> 0]
        ELSE books[i]]

(* a read that answers an empty record for a key that is not there *)
redis_get_empty_for_missing(id) ==
    {[status |-> "error", value |-> json_dumps(EmptyDict)]}
    \cup (IF id \in DOMAIN books
          THEN {[status |-> "ok", value |-> books[id].value]}
          ELSE {[status |-> "ok", value |-> json_dumps(EmptyDict)]})

(* redis_client.get(f"book:{id}"): an error, nil, or the stored value *)
redis_get(id) ==
    {[status |-> "error", value |-> json_dumps(EmptyDict)]}
    \cup (IF id \in DOMAIN books
          THEN {[status |-> "ok", value |-> books[id].value]}
          ELSE {[status |-> "nil", value |-> json_dumps(EmptyDict)]})

(* history: the user whose photo was staged under id *)
StagedBy(id) == IF id \in DOMAIN books THEN books[id].by ELSE 0

(* redis_client.delete(f"book:{id}") *)
redis_delete(id) == [i \in DOMAIN books \ {id} |-> books[i]]

(* a row that takes its title from the author field *)
book_row_title_from_author(book_data, user_id, from) ==
    [id |-> TotalRows + 1,
     author |-> Get(book_data, "author", <<>>),
     title |-> Get(book_data, "author", <<>>),
     publication_year |-> Get(book_data, "publication_year", 0),
     category |-> Get(book_data, "category", <<>>),
     publisher |-> Get(book_data, "publisher", <<>>),
     user_id |-> user_id,
     from |-> from]

(* the row save_book inserts; str(uuid4()) is a value no row has yet.
   from is history: the pending id the row was committed from *)
book_row(book_data, user_id, from) ==
    [id |-> TotalRows + 1,
     author |-> Get(book_data, "author", <<>>),
     title |-> Get(book_data, "title", <<>>),
     publication_year |-> Get(book_data, "publication_year", 0),
     category |-> Get(book_data, "category", <<>>),
     publisher |-> Get(book_data, "publisher", <<>>),
     user_id |-> user_id,
     from |-> from]

(* whether the INSERT of save_book can succeed *)
insert_outcomes(db_path) ==
    IF db_path \in DOMAIN tables THEN {TRUE, FALSE} ELSE {FALSE}

---------------------------------------------------------------------------
(* main.py when it starts: CURRENT_DB_KEY, DB_KEYS as the keys file has
   them, TEMP_BOOK_STORAGE, its tables, and what its last handler sent *)
MemBoot ==
    [CURRENT_DB_KEY |-> None, DB_KEYS |-> EmptyDict,
     TEMP_BOOK_STORAGE |-> EmptyDict, tables |-> EmptyDict, out |-> Silent]

(* The state when the process starts.  Redis and the SQLite files outlive
   the process: the deployment is new, or an administrator has bound key
   K1 and init_db has created its table in an earlier run. *)
FileA == <<"a", ".db">>

Provisioned == [k \in {"K1"} |-> FileA]

Boot(max_tasks) ==
    /\ room = max_tasks
    /\ current_db_key = None
    /\ \/ db_keys = EmptyDict /\ tables = EmptyDict
       \/ db_keys = Provisioned /\ tables = [f \in {FileA} |-> <<>>]
    /\ books = EmptyDict
    /\ files = {}
    /\ next_book_id = 1
    /\ tasks = EmptyBag
    /\ out = Silent
    /\ expired = {}
    /\ events = 0
    /\ failed = {}
    /\ mem = MemBoot
    /\ parse_input = <<>>
    /\ parse_result = [stage |-> "idle", raised |-> FALSE, data |-> EmptyDict]

Init == Boot(MaxTasks)

InitRace == Boot(RaceTasks)

---------------------------------------------------------------------------
(* /start [key] *)
send_welcome(u, arg) ==
    /\ HasRoom
    /\ events' = events + 1
    /\ IF arg = None
       THEN /\ out' = Sent("start", <<MSG_NEED_KEY>>, NoId, FALSE)
            /\ UNCHANGED <<current_db_key, tasks>>
       ELSE \E loaded \in load_db_keys :
              IF arg \notin DOMAIN loaded
              THEN /\ out' = Sent("start", <<MSG_BAD_KEY>>, NoId, FALSE)
                   /\ UNCHANGED <<current_db_key, tasks>>
              ELSE /\ current_db_key' = arg
                   /\ tasks' = Spawn(Task("start", "init", 0, arg, loaded[arg],
                                          "", NoId, EmptyDict, 0))
                   /\ out' = Silent
    /\ UNCHANGED <<db_keys, books, tables, files, next_book_id, expired, room,
                   parse_input, parse_result, failed, mem>>

(* send_welcome resumed: init_db runs, then the reply *)
send_welcome_init(t) ==
    /\ t.kind = "start" /\ t.pc = "init"
    /\ tables' \in init_db(t.loc)
    /\ tasks' = Finish(t)
    /\ out' = Sent("start", <<MSG_CONNECTED, t.key>>, NoId, FALSE)
    /\ UNCHANGED <<current_db_key, db_keys, books, files, next_book_id, expired,
                   events, room, parse_input, parse_result, failed, mem>>

(* /total *)
send_total_books(u) ==
    /\ HasRoom
    /\ events' = events + 1
    /\ IF current_db_key = None
       THEN /\ out' = Sent("total", <<MSG_NO_DB>>, NoId, FALSE)
            /\ UNCHANGED tasks
       ELSE \E loaded \in load_db_keys :
              LET db_path == get_current_db_path(loaded)
              IN  IF db_path = NoPath
                  THEN /\ out' = Sent("total", <<MSG_TOTAL, str(0)>>, NoId, FALSE)
                       /\ UNCHANGED tasks
                  ELSE /\ tasks' = Spawn(Task("total", "count", 0, None,
                                              db_path, "", NoId, EmptyDict, 0))
                       /\ out' = Silent
    /\ UNCHANGED <<current_db_key, db_keys, books, tables, files, next_book_id,
                   expired, room, parse_input, parse_result, failed, mem>>

(* a count that adds the records still pending to the rows *)
get_total_books_with_pending(t) ==
    /\ t.kind = "total" /\ t.pc = "count"
    /\ \E total \in {0} \cup (IF t.loc \in DOMAIN tables
                              THEN {Len(tables[t.loc]) + Cardinality(DOMAIN books)}
                              ELSE {}) :
          out' = Sent("total", <<MSG_TOTAL, str(total)>>, NoId, FALSE)
    /\ tasks' = Finish(t)
    /\ UNCHANGED <<current_db_key, db_keys, books, tables, files, next_book_id,
                   expired,
                   events, room, parse_input, parse_result, failed, mem>>

(* get_total_books resumed: the row count, 0 on any aiosqlite error *)
get_total_books(t) ==
    /\ t.kind = "total" /\ t.pc = "count"
    /\ \E total \in {0} \cup (IF t.loc \in DOMAIN tables
                              THEN {Len(tables[t.loc])} ELSE {}) :
          out' = Sent("total", <<MSG_TOTAL, str(total)>>, NoId, FALSE)
    /\ tasks' = Finish(t)
    /\ UNCHANGED <<current_db_key, db_keys, books, tables, files, next_book_id,
                   expired,
                   events, room, parse_input, parse_result, failed, mem>>

(* an /add_key that does not look at who sent it *)
add_db_key_for_anyone(u, key, db_file_arg) ==
    /\ HasRoom
    /\ events' = events + 1
    /\ IF key = None
       THEN /\ out' = Sent("add_key", <<MSG_ADD_USAGE>>, NoId, FALSE)
            /\ UNCHANGED <<db_keys, tasks>>
       ELSE LET db_file == with_db_suffix(db_file_arg)
            IN  \E loaded \in load_db_keys :
                  /\ db_keys' \in save_db_keys(Put(loaded, key, db_file))
                  /\ tasks' = Spawn(Task("add_key", "init", 0, key, db_file,
                                         "", NoId, EmptyDict, 0))
                  /\ out' = Silent
    /\ UNCHANGED <<current_db_key, books, tables, files, next_book_id, expired,
                   room, parse_input, parse_result, failed, mem>>

(* /add_key [key file] *)
add_db_key(u, key, db_file_arg) ==
    /\ HasRoom
    /\ events' = events + 1
    /\ IF u # ADMIN_USER_ID
       THEN /\ out' = Sent("add_key", <<MSG_ADMIN_ONLY>>, NoId, FALSE)
            /\ UNCHANGED <<db_keys, tasks>>
       ELSE IF key = None
       THEN /\ out' = Sent("add_key", <<MSG_ADD_USAGE>>, NoId, FALSE)
            /\ UNCHANGED <<db_keys, tasks>>
       ELSE LET db_file == with_db_suffix(db_file_arg)
            IN  \E loaded \in load_db_keys :
                  /\ db_keys' \in save_db_keys(Put(loaded, key, db_file))
                  /\ tasks' = Spawn(Task("add_key", "init", 0, key, db_file,
                                         "", NoId, EmptyDict, 0))
                  /\ out' = Silent
    /\ UNCHANGED <<current_db_key, books, tables, files, next_book_id, expired,
                   room, parse_input, parse_result, failed, mem>>

(* add_db_key resumed: init_db runs, then the reply *)
add_db_key_init(t) ==
    /\ t.kind = "add_key" /\ t.pc = "init"
    /\ tables' \in init_db(t.loc)
    /\ tasks' = Finish(t)
    /\ out' = Sent("add_key", <<MSG_KEY_ADDED, t.key>> \o t.loc, NoId, FALSE)
    /\ UNCHANGED <<current_db_key, db_keys, books, files, next_book_id, expired,
                   events, room, parse_input, parse_result, failed, mem>>

(* a photo handler that skips the guard on the selected key *)
handle_photo_unguarded(u, fid) ==
    /\ HasRoom
    /\ events' = events + 1
    /\ tasks' = Spawn(Task("photo", "download", u, None, NoPath,
                           fid, NoId, EmptyDict, 0))
    /\ out' = Silent
    /\ UNCHANGED <<current_db_key, db_keys, books, tables, files, next_book_id,
                   expired, room, parse_input, parse_result, failed, mem>>

(* a photo arrives *)
handle_photo(u, fid) ==
    /\ HasRoom
    /\ events' = events + 1
    /\ IF current_db_key = None
       THEN /\ out' = Sent("photo", <<MSG_NO_DB>>, NoId, FALSE)
            /\ UNCHANGED tasks
       ELSE /\ tasks' = Spawn(Task("photo", "download", u, None, NoPath,
                                   fid, NoId, EmptyDict, 0))
            /\ out' = Silent
    /\ UNCHANGED <<current_db_key, db_keys, books, tables, files, next_book_id,
                   expired, room, parse_input, parse_result, failed, mem>>

(* a staging that sends the Save button although setex failed *)
handle_photo_stage_button_on_error(t) ==
    /\ t.kind = "photo" /\ t.pc = "download"
    /\ files' = files \cup {t.fid}
    /\ \E result \in process_images :
         LET parsed == parse_book_data(result)
             book_id == next_book_id
         IN  IF parsed.raised
             THEN /\ tasks' = Finish(t)
                  /\ out' = Silent
                  /\ UNCHANGED <<books, next_book_id>>
             ELSE /\ next_book_id' = next_book_id + 1
                  /\ \/ /\ books' = setex(book_id, json_dumps(parsed.data), t.user,
                                        Get(db_keys, current_db_key, NoPath))
                        /\ out' = Sent("photo", result, book_id, FALSE)
                        /\ tasks' = Continue(t, "cleanup")
                     \/ /\ out' = Sent("photo", result, book_id, FALSE)
                        /\ tasks' = Continue(t, "cleanup")
                        /\ UNCHANGED books
    /\ UNCHANGED <<current_db_key, db_keys, tables, expired,
                   events, room, parse_input, parse_result, failed, mem>>

(* handle_photo resumed after the download: the image is on disk.  The
   await of process_images that follows touches no state of the bot, so the
   extraction, parse_book_data, uuid4, setex and the reply are one step *)
handle_photo_stage(t) ==
    /\ t.kind = "photo" /\ t.pc = "download"
    /\ files' = files \cup {t.fid}
    /\ \E result \in process_images :
         LET parsed == parse_book_data(result)
             book_id == next_book_id
         IN  IF parsed.raised
             THEN \* ValueError leaves the handler
                  /\ tasks' = Finish(t)
                  /\ out' = Silent
                  /\ UNCHANGED <<books, next_book_id>>
             ELSE /\ next_book_id' = next_book_id + 1
                  /\ \/ /\ books' = setex(book_id, json_dumps(parsed.data), t.user,
                                        Get(db_keys, current_db_key, NoPath))
                        /\ out' = Sent("photo", result, book_id, FALSE)
                        /\ tasks' = Continue(t, "cleanup")
                     \/ \* redis.RedisError
                        /\ out' = Sent("photo", <<MSG_REDIS_SAVE_ERROR>>, NoId, FALSE)
                        /\ tasks' = Finish(t)
                        /\ UNCHANGED books
    /\ UNCHANGED <<current_db_key, db_keys, tables, expired,
                   events, room, parse_input, parse_result, failed, mem>>

(* handle_photo resumed after the reply: the scratch images are removed *)
handle_photo_cleanup(t) ==
    /\ t.kind = "photo" /\ t.pc = "cleanup"
    /\ files' = files \ {t.fid}
    /\ tasks' = Finish(t)
    /\ out' = Silent
    /\ UNCHANGED <<current_db_key, db_keys, books, tables, next_book_id, expired,
                   events, room, parse_input, parse_result, failed, mem>>

(* a confirm handler that skips the guard on the selected key *)
process_save_callback_unguarded(u, book_id) ==
    /\ HasRoom
    /\ events' = events + 1
    /\ \E got \in redis_get(book_id) :
         IF got.status = "error"
         THEN /\ out' = SentAbout(book_id, <<MSG_SAVE_EXCEPTION>>, TRUE)
              /\ UNCHANGED <<tasks, failed>>
         ELSE IF got.status = "nil"
         THEN /\ out' = SentAbout(book_id, <<MSG_NOT_FOUND>>, FALSE)
              /\ UNCHANGED <<tasks, failed>>
         ELSE \E loaded \in load_db_keys :
                LET db_path == get_current_db_path(loaded)
                IN  IF db_path = NoPath
                    THEN /\ out' = SentAbout(book_id, <<MSG_SAVE_FAILED>>, TRUE)
                         /\ failed' = failed \cup {book_id}
                         /\ UNCHANGED tasks
                    ELSE /\ tasks' = Spawn(Task("save", "insert", u, None,
                                                db_path, "", book_id,
                                                json_loads(got.value),
                                                StagedBy(book_id)))
                         /\ out' = Silent
                         /\ UNCHANGED failed
    /\ UNCHANGED <<current_db_key, db_keys, books, tables, files, next_book_id,
                   expired, room, parse_input, parse_result, mem>>

(* the Save button is pressed: up to the first await inside save_book *)
process_save_callback(u, book_id) ==
    /\ HasRoom
    /\ events' = events + 1
    /\ IF current_db_key = None
       THEN /\ out' = SentAbout(book_id, <<MSG_NO_DB>>, FALSE)
            /\ UNCHANGED <<tasks, failed>>
       ELSE \E got \in redis_get(book_id) :
              IF got.status = "error"
              THEN /\ out' = SentAbout(book_id, <<MSG_SAVE_EXCEPTION>>, TRUE)
                   /\ UNCHANGED <<tasks, failed>>
              ELSE IF got.status = "nil"
              THEN /\ out' = SentAbout(book_id, <<MSG_NOT_FOUND>>, FALSE)
                   /\ UNCHANGED <<tasks, failed>>
              ELSE \E loaded \in load_db_keys :
                     LET db_path == get_current_db_path(loaded)
                     IN  IF db_path = NoPath
                         THEN /\ out' = SentAbout(book_id, <<MSG_SAVE_FAILED>>, TRUE)
                              /\ failed' = failed \cup {book_id}
                              /\ UNCHANGED tasks
                         ELSE /\ tasks' = Spawn(Task("save", "insert", u, None,
                                                     db_path, "", book_id,
                                                     json_loads(got.value),
                                                     StagedBy(book_id)))
                              /\ out' = Silent
                              /\ UNCHANGED failed
    /\ UNCHANGED <<current_db_key, db_keys, books, tables, files, next_book_id,
                   expired, room, parse_input, parse_result, mem>>

(* a save that replies success whatever the INSERT did *)
save_book_always_true(t) ==
    /\ t.kind = "save" /\ t.pc = "insert"
    /\ \E ok \in insert_outcomes(t.loc) :
         /\ tables' = IF ok
                       THEN [tables EXCEPT ![t.loc] =
                                Append(@, book_row(t.data, str(t.user), t.id))]
                       ELSE tables
         /\ out' = SentAbout(t.id, <<MSG_SAVED>>, FALSE)
         /\ tasks' = Continue(t, "delete")
         /\ UNCHANGED failed
    /\ UNCHANGED <<current_db_key, db_keys, books, files, next_book_id, expired,
                   events, room, parse_input, parse_result, mem>>

(* a save whose failed INSERT leaves its row behind *)
save_book_keeping_failed_row(t) ==
    /\ t.kind = "save" /\ t.pc = "insert"
    /\ \E ok \in insert_outcomes(t.loc) :
         IF ok
         THEN /\ tables' = [tables EXCEPT ![t.loc] =
                               Append(@, book_row(t.data, str(t.user), t.id))]
              /\ out' = SentAbout(t.id, <<MSG_SAVED>>, FALSE)
              /\ tasks' = Continue(t, "delete")
              /\ UNCHANGED failed
         ELSE /\ out' = SentAbout(t.id, <<MSG_SAVE_FAILED>>, TRUE)
              /\ tasks' = Finish(t)
              /\ failed' = failed \cup {t.id}
              /\ tables' = IF t.loc \in DOMAIN tables
                           THEN [tables EXCEPT ![t.loc] =
                                    Append(@, book_row(t.data, str(t.user), t.id))]
                           ELSE tables
    /\ UNCHANGED <<current_db_key, db_keys, books, files, next_book_id, expired,
                   events, room, parse_input, parse_result, mem>>

(* a save that removes the pending entry when the INSERT fails *)
save_book_dropping_entry(t) ==
    /\ t.kind = "save" /\ t.pc = "insert"
    /\ \E ok \in insert_outcomes(t.loc) :
         IF ok
         THEN /\ tables' = [tables EXCEPT ![t.loc] =
                               Append(@, book_row(t.data, str(t.user), t.id))]
              /\ out' = SentAbout(t.id, <<MSG_SAVED>>, FALSE)
              /\ tasks' = Continue(t, "delete")
              /\ UNCHANGED failed
              /\ UNCHANGED books
         ELSE /\ out' = SentAbout(t.id, <<MSG_SAVE_FAILED>>, TRUE)
              /\ tasks' = Finish(t)
              /\ failed' = failed \cup {t.id}
              /\ books' = redis_delete(t.id)
              /\ UNCHANGED tables
    /\ UNCHANGED <<current_db_key, db_keys, files, next_book_id, expired,
                   events, room, parse_input, parse_result, mem>>

(* save_book resumed: the INSERT and commit, then the handler's reply *)
save_book(t) ==
    /\ t.kind = "save" /\ t.pc = "insert"
    /\ \E ok \in insert_outcomes(t.loc) :
         IF ok
         THEN /\ tables' = [tables EXCEPT ![t.loc] =
                               Append(@, book_row(t.data, str(t.user), t.id))]
              /\ out' = SentAbout(t.id, <<MSG_SAVED>>, FALSE)
              /\ tasks' = Continue(t, "delete")
              /\ UNCHANGED failed
         ELSE /\ out' = SentAbout(t.id, <<MSG_SAVE_FAILED>>, TRUE)
              /\ tasks' = Finish(t)
              /\ failed' = failed \cup {t.id}
              /\ UNCHANGED tables
    /\ UNCHANGED <<current_db_key, db_keys, books, files, next_book_id, expired,
                   events, room, parse_input, parse_result, mem>>

(* process_save_callback resumed after the success reply: the pending
   entry is deleted, then the callback is answered *)
process_save_callback_delete(t) ==
    /\ t.kind = "save" /\ t.pc = "delete"
    /\ \/ /\ books' = redis_delete(t.id)
          /\ out' = SentAbout(t.id, <<>>, TRUE)
       \/ \* redis.RedisError
          /\ out' = SentAbout(t.id, <<MSG_SAVE_EXCEPTION>>, TRUE)
          /\ UNCHANGED books
    /\ tasks' = Finish(t)
    /\ UNCHANGED <<current_db_key, db_keys, tables, files, next_book_id, expired,
                   events, room, parse_input, parse_result, failed, mem>>

(* the process is restarted while no handler is running: state is a new
   BotState, Redis and the SQLite files are as they were *)
Restart ==
    /\ tasks = EmptyBag
    /\ current_db_key # None
    /\ events < MaxEvents
    /\ events' = events + 1
    /\ current_db_key' = None
    /\ out' = Silent
    /\ UNCHANGED <<db_keys, books, tables, files, next_book_id, tasks, expired,
                   room, parse_input, parse_result, failed, mem>>

(* TickLen seconds pass: Redis counts every TTL down and drops the entries
   whose TTL has run out *)
Tick ==
    /\ DOMAIN books # {}
    /\ LET aged == [i \in DOMAIN books |->
                       [books[i] EXCEPT !.ttl = @ - TickLen, !.age = @ + TickLen]]
       IN  /\ books' = [i \in {j \in DOMAIN aged : aged[j].ttl > 0} |-> aged[i]]
           /\ expired' = expired \cup
                           {j \in DOMAIN aged : aged[j].age >= TEMP_BOOK_TTL}
    /\ out' = Silent
    /\ UNCHANGED <<current_db_key, db_keys, tables, files, next_book_id, tasks,
                   events, room, parse_input, parse_result, failed, mem>>

Next ==
    \/ \E u \in Users, arg \in Keys \cup {None} : send_welcome(u, arg)
    \/ \E t \in Running : send_welcome_init(t)
    \/ \E u \in Users : send_total_books(u)
    \/ \E t \in Running : get_total_books(t)
    \/ \E u \in Users, key \in Keys \cup {None}, f \in DbFileArgs : add_db_key(u, key, f)
    \/ \E t \in Running : add_db_key_init(t)
    \/ \E u \in Users, fid \in FileIds : handle_photo(u, fid)
    \/ \E t \in Running : handle_photo_stage(t)
    \/ \E t \in Running : handle_photo_cleanup(t)
    \/ \E u \in Users, book_id \in 1..next_book_id : process_save_callback(u, book_id)
    \/ \E t \in Running : save_book(t)
    \/ \E t \in Running : process_save_callback_delete(t)
    \/ Tick
    \/ Restart

Spec == Init /\ [][Next]_vars

SpecRace == InitRace /\ [][Next]_vars

---------------------------------------------------------------------------
(* parse_book_data on its own: texts from a bounded set, and the texts
   rendered from records the way the repository's test writes them *)

Labels == {<<LblAuthor>>, <<LblTitle>>, <<LblYear>>, <<LblCategory>>,
           <<LblPublisher>>}

(* the lines a text is made of: every label with an empty value and with a
   value that holds a ': ' of its own, year lines of digits and of a
   character only isdigit accepts, a line of an unknown label, and lines
   without the separator *)
LineValues == {<<>>, <<"y", ":", " ", "z">>}
YearValues == {<<"3", "7">>, <<"sup2">>}
PlainLines == {<<"x", ":", " ", "y">>, <<LblAuthor, ":", "y">>, <<LblTitle>>}

InputLines ==
    {l \o <<":", " ">> \o v : l \in Labels, v \in LineValues}
    \cup {<<LblYear, ":", " ">> \o v : v \in YearValues}
    \cup PlainLines

RECURSIVE join_lines(_)
join_lines(lines) ==
    IF Len(lines) = 0 THEN <<>>
    ELSE IF Len(lines) = 1 THEN lines[1]
    ELSE lines[1] \o <<"\n">> \o join_lines(Tail(lines))

InputTexts ==
    {join_lines(ls) : ls \in UNION {[1..n -> InputLines] : n \in 1..MaxLines}}

(* the decimal digits of a non-negative integer, as str() writes them *)
RECURSIVE decimal(_)
decimal(n) ==
    LET d == <<"0", "1", "2", "3", "4", "5", "6", "7", "8", "9">>[(n % 10) + 1]
    IN  IF n < 10 THEN <<d>> ELSE decimal(n \div 10) \o <<d>>

(* records with the five fields: text fields possibly empty, year >= 0 *)
FieldTexts == {<<>>, <<"y">>}
Records ==
    [author : FieldTexts, title : FieldTexts, publication_year : {0, MaxYear},
     category : FieldTexts, publisher : FieldTexts]

(* one "Label: value" line per field, in the order of the test *)
render(r) ==
    join_lines(<<<<LblAuthor, ":", " ">> \o r.author,
                 <<LblTitle, ":", " ">> \o r.title,
                 <<LblYear, ":", " ">> \o decimal(r.publication_year),
                 <<LblCategory, ":", " ">> \o r.category,
                 <<LblPublisher, ":", " ">> \o r.publisher>>)

(* a text arrives to be parsed *)
receive_text(t) ==
    /\ parse_result.stage = "idle"
    /\ parse_input' = t
    /\ parse_result' = [parse_result EXCEPT !.stage = "input"]
    /\ UNCHANGED <<current_db_key, db_keys, books, tables, files, next_book_id,
                   tasks, out, expired, events, room, failed, mem>>

(* a record is rendered to be parsed *)
render_record(r) ==
    /\ parse_result.stage = "idle"
    /\ parse_input' = render(r)
    /\ parse_result' = [parse_result EXCEPT !.stage = "input"]
    /\ UNCHANGED <<current_db_key, db_keys, books, tables, files, next_book_id,
                   tasks, out, expired, events, room, failed, mem>>

(* parse_book_data runs on the text: it returns data, or ValueError leaves it *)
parse_text ==
    /\ parse_result.stage = "input"
    /\ LET res == parse_book_data(parse_input)
       IN  parse_result' = [stage |-> "done", raised |-> res.raised,
                      data |-> IF res.raised THEN EmptyDict ELSE res.data]
    /\ UNCHANGED <<current_db_key, db_keys, books, tables, files, next_book_id,
                   tasks, out, expired, events, room, parse_input, failed, mem>>

NextParse ==
    \/ \E t \in InputTexts : receive_text(t)
    \/ \E r \in Records : render_record(r)
    \/ parse_text

SpecParse == Init /\ [][NextParse]_vars

---------------------------------------------------------------------------
(* Vocabulary of the properties *)

(* the rows committed from pending id p, over all tables *)
RowsFrom(p) ==
    {<<f, n>> \in UNION {{f} \X (1..Len(tables[f])) : f \in DOMAIN tables} :
        tables[f][n].from = p}

(* the save handlers suspended at pc for pending id p *)
SavesAt(pc, p) ==
    {t \in Running : t.kind = "save" /\ t.pc = pc /\ t.id = p}

(* how many handlers of the bag are among S *)
CountIn(S) == BagCardinality([t \in S |-> tasks[t]])

IssuedIds == 1..(next_book_id - 1)

(* the tenant the operations of user v act on: the code keeps one for all *)
ActiveTenantOf(v) == current_db_key

---------------------------------------------------------------------------
(* The two implementations side by side.  Every event is handled to its end
   by both bots before the next one arrives, no store call fails and no
   entry expires.  The Redis-backed bot keeps its state in the variables
   above, main.py keeps its globals and its sqlite files in mem; both are
   given the same event, the same answer of the extraction and the same
   uuid. *)

(* CREATE TABLE IF NOT EXISTS books, in the file db_path among dbs *)
create_table(dbs, db_path) ==
    IF db_path \in DOMAIN dbs THEN dbs
    ELSE [f \in DOMAIN dbs \cup {db_path} |->
             IF f = db_path THEN <<>> ELSE dbs[f]]

(* main.py: the row its save_book inserts *)
mem_book_row(book_data, user_id, from) ==
    [id |-> SumLen(mem.tables, DOMAIN mem.tables) + 1,
     author |-> Get(book_data, "author", <<>>),
     title |-> Get(book_data, "title", <<>>),
     publication_year |-> Get(book_data, "publication_year", 0),
     category |-> Get(book_data, "category", <<>>),
     publisher |-> Get(book_data, "publisher", <<>>),
     user_id |-> user_id,
     from |-> from]

(* main.py: /add_key *)
mem_add_db_key(u, key, db_file_arg) ==
    IF u # ADMIN_USER_ID
    THEN [mem EXCEPT !.out = Sent("add_key", <<MSG_ADMIN_ONLY>>, NoId, FALSE)]
    ELSE IF key = None
    THEN [mem EXCEPT !.out = Sent("add_key", <<MSG_ADD_USAGE>>, NoId, FALSE)]
    ELSE LET db_file == with_db_suffix(db_file_arg)
         IN  [mem EXCEPT
                 !.DB_KEYS = Put(@, key, db_file),
                 !.tables = create_table(@, db_file),
                 !.out = Sent("add_key", <<MSG_KEY_ADDED, key>> \o db_file,
                              NoId, FALSE)]

(* main.py: /start *)
mem_send_welcome(u, arg) ==
    IF arg = None
    THEN [mem EXCEPT !.out = Sent("start", <<MSG_NEED_KEY>>, NoId, FALSE)]
    ELSE IF arg \notin DOMAIN mem.DB_KEYS
    THEN [mem EXCEPT !.out = Sent("start", <<MSG_BAD_KEY>>, NoId, FALSE)]
    ELSE [mem EXCEPT
             !.CURRENT_DB_KEY = arg,
             !.tables = create_table(@, mem.DB_KEYS[arg]),
             !.out = Sent("start", <<MSG_CONNECTED, arg>>, NoId, FALSE)]

(* main.py: a photo, with the extraction's answer and the uuid drawn *)
mem_handle_photo(u, result, book_id) ==
    IF mem.CURRENT_DB_KEY = None
    THEN [mem EXCEPT !.out = Sent("photo", <<MSG_NO_DB>>, NoId, FALSE)]
    ELSE LET parsed == parse_book_data(result)
         IN  IF parsed.raised
             THEN [mem EXCEPT !.out = Silent]
             ELSE [mem EXCEPT
                      !.TEMP_BOOK_STORAGE = Put(@, book_id, parsed.data),
                      !.out = Sent("photo", result, book_id, FALSE)]

(* main.py: the Save button.  "not book_data" holds for a missing entry and
   for an empty dict alike *)
mem_process_save_callback(u, book_id) ==
    IF mem.CURRENT_DB_KEY = None
    THEN [mem EXCEPT !.out = SentAbout(book_id, <<MSG_NO_DB>>, FALSE)]
    ELSE IF \/ book_id \notin DOMAIN mem.TEMP_BOOK_STORAGE
            \/ DOMAIN mem.TEMP_BOOK_STORAGE[book_id] = {}
    THEN [mem EXCEPT !.out = SentAbout(book_id, <<MSG_NOT_FOUND>>, FALSE)]
    ELSE LET db_path == Get(mem.DB_KEYS, mem.CURRENT_DB_KEY, NoPath)
         IN  IF db_path = NoPath \/ db_path \notin DOMAIN mem.tables
             THEN [mem EXCEPT
                      !.out = SentAbout(book_id, <<MSG_SAVE_FAILED>>, TRUE)]
             ELSE [mem EXCEPT
                      !.tables[db_path] =
                          Append(@, mem_book_row(mem.TEMP_BOOK_STORAGE[book_id],
                                                 str(u), book_id)),
                      !.TEMP_BOOK_STORAGE =
                          [i \in DOMAIN @ \ {book_id} |-> @[i]],
                      !.out = SentAbout(book_id, <<MSG_SAVED>>, TRUE)]

(* /add_key handled by both bots *)
both_add_db_key(u, key, db_file_arg) ==
    /\ events < MaxEvents
    /\ events' = events + 1
    /\ IF u # ADMIN_USER_ID
       THEN /\ out' = Sent("add_key", <<MSG_ADMIN_ONLY>>, NoId, FALSE)
            /\ UNCHANGED <<db_keys, tables>>
       ELSE IF key = None
       THEN /\ out' = Sent("add_key", <<MSG_ADD_USAGE>>, NoId, FALSE)
            /\ UNCHANGED <<db_keys, tables>>
       ELSE LET db_file == with_db_suffix(db_file_arg)
            IN  /\ db_keys' = Put(db_keys, key, db_file)
                /\ tables' = create_table(tables, db_file)
                /\ out' = Sent("add_key", <<MSG_KEY_ADDED, key>> \o db_file,
                               NoId, FALSE)
    /\ mem' = mem_add_db_key(u, key, db_file_arg)
    /\ UNCHANGED <<current_db_key, books, files, next_book_id, tasks, expired,
                   room, parse_input, parse_result, failed>>

(* /start handled by both bots *)
both_send_welcome(u, arg) ==
    /\ events < MaxEvents
    /\ events' = events + 1
    /\ IF arg = None
       THEN /\ out' = Sent("start", <<MSG_NEED_KEY>>, NoId, FALSE)
            /\ UNCHANGED <<current_db_key, tables>>
       ELSE IF arg \notin DOMAIN db_keys
       THEN /\ out' = Sent("start", <<MSG_BAD_KEY>>, NoId, FALSE)
            /\ UNCHANGED <<current_db_key, tables>>
       ELSE /\ current_db_key' = arg
            /\ tables' = create_table(tables, db_keys[arg])
            /\ out' = Sent("start", <<MSG_CONNECTED, arg>>, NoId, FALSE)
    /\ mem' = mem_send_welcome(u, arg)
    /\ UNCHANGED <<db_keys, books, files, next_book_id, tasks, expired, room,
                   parse_input, parse_result, failed>>

(* a photo handled by both bots: the image is downloaded, read, staged,
   replied to and removed *)
both_handle_photo(u, result) ==
    /\ events < MaxEvents
    /\ events' = events + 1
    /\ LET parsed == parse_book_data(result)
           book_id == next_book_id
       IN  /\ IF current_db_key = None
              THEN /\ out' = Sent("photo", <<MSG_NO_DB>>, NoId, FALSE)
                   /\ UNCHANGED <<books, next_book_id>>
              ELSE IF parsed.raised
              THEN /\ out' = Silent
                   /\ UNCHANGED <<books, next_book_id>>
              ELSE /\ next_book_id' = next_book_id + 1
                   /\ books' = setex(book_id, json_dumps(parsed.data), u,
                                     Get(db_keys, current_db_key, NoPath))
                   /\ out' = Sent("photo", result, book_id, FALSE)
           /\ mem' = mem_handle_photo(u, result, book_id)
    /\ UNCHANGED <<current_db_key, db_keys, tables, files, tasks, expired, room,
                   parse_input, parse_result, failed>>

(* the Save button handled by both bots *)
both_process_save_callback(u, book_id) ==
    /\ events < MaxEvents
    /\ events' = events + 1
    /\ IF current_db_key = None
       THEN /\ out' = SentAbout(book_id, <<MSG_NO_DB>>, FALSE)
            /\ UNCHANGED <<books, tables>>
       ELSE IF book_id \notin DOMAIN books
       THEN /\ out' = SentAbout(book_id, <<MSG_NOT_FOUND>>, FALSE)
            /\ UNCHANGED <<books, tables>>
       ELSE LET db_path == get_current_db_path(db_keys)
            IN  IF db_path = NoPath \/ db_path \notin DOMAIN tables
                THEN /\ out' = SentAbout(book_id, <<MSG_SAVE_FAILED>>, TRUE)
                     /\ UNCHANGED <<books, tables>>
                ELSE /\ tables' = [tables EXCEPT ![db_path] =
                                      Append(@, book_row(json_loads(books[book_id].value),
                                                         str(u), book_id))]
                     /\ books' = redis_delete(book_id)
                     /\ out' = SentAbout(book_id, <<MSG_SAVED>>, TRUE)
    /\ mem' = mem_process_save_callback(u, book_id)
    /\ UNCHANGED <<current_db_key, db_keys, files, next_book_id, tasks, expired,
                   room, parse_input, parse_result, failed>>

NextEquiv ==
    \/ \E u \in Users, key \in Keys \cup {None}, f \in DbFileArgs :
         both_add_db_key(u, key, f)
    \/ \E u \in Users, arg \in Keys \cup {None} : both_send_welcome(u, arg)
    \/ \E u \in Users, result \in process_images : both_handle_photo(u, result)
    \/ \E u \in Users, book_id \in 1..next_book_id :
         both_process_save_callback(u, book_id)

(* both bots start with no key bound: an empty registry in Redis and no
   db_keys.json file *)
InitEquiv == Init /\ db_keys = EmptyDict

SpecEquiv == InitEquiv /\ [][NextEquiv]_vars

(* the committed rows of dbs without the uuid of the row *)
Committed(dbs) ==
    [f \in DOMAIN dbs |->
        [n \in 1..Len(dbs[f]) |->
            [author |-> dbs[f][n].author,
             title |-> dbs[f][n].title,
             publication_year |-> dbs[f][n].publication_year,
             category |-> dbs[f][n].category,
             publisher |-> dbs[f][n].publisher,
             user_id |-> dbs[f][n].user_id]]]

---------------------------------------------------------------------------
(* C1: confirm handlers that run concurrently with the same PendingId
   append at most one ledger row between them: at no time have two handlers
   that are still running each appended a row for the same id. *)
C1_OneRowPerIdWhenConcurrent ==
    \A p \in IssuedIds : CountIn(SavesAt("delete", p)) <= 1

(* C2: once a confirm for PendingId p has completed with its row appended
   and the success reply sent (no handler for p is still running), the
   pending entry for p no longer exists. *)
C2_EntryGoneAfterSuccess ==
    \A p \in IssuedIds :
        (RowsFrom(p) # {} /\ SavesAt("delete", p) = {}) => p \notin DOMAIN books

(* C3: when process_images fails, the step that sends the user the fixed
   failure text writes no pending entry and attaches no confirm action. *)
C3_FailedExtractionNotStaged ==
    [][out'.text = <<MSG_IMAGES_ERROR>> =>
          (books' = books /\ out'.markup = NoId)]_vars

(* C4, as the specification states it: when the INSERT of a confirm fails,
   the user gets the failure reply and the pending entry of that id is no
   longer in the store. *)
C4_EntryGoneAfterFailedAppend ==
    [][\A t \in Running :
          (tables' = tables /\ save_book(t)) =>
              (out'.text = <<MSG_SAVE_FAILED>> /\ t.id \notin DOMAIN books')]_vars

(* C4, as the code behaves: when the INSERT of a confirm fails (or the
   ledger location cannot be resolved), the user gets the failure reply, the
   callback is answered and the pending store is left exactly as it was, so
   the entry, when it has not expired meanwhile, is still there with the TTL
   it had and the confirm can be repeated. *)
C4_EntryKeptAfterFailedAppend ==
    [][/\ \A t \in Running :
            (tables' = tables /\ save_book(t)) =>
                /\ out' = SentAbout(t.id, <<MSG_SAVE_FAILED>>, TRUE)
                /\ books' = books
                /\ t \notin BagToSet(tasks') \/ tasks'[t] < tasks[t]
       /\ \A u \in Users, p \in 1..next_book_id :
            (out'.text = <<MSG_SAVE_FAILED>> /\ process_save_callback(u, p)) =>
                (books' = books /\ tables' = tables /\ tasks' = tasks)]_vars

(* a confirm of id p has just failed at the INSERT, and p is still pending
   with nothing committed from it *)
C4_Witness ==
    /\ out.kind = "save" /\ out.text = <<MSG_SAVE_FAILED>> /\ out.answered
    /\ out.about \in DOMAIN books
    /\ RowsFrom(out.about) = {}

(* C5: a /start of user u changes the tenant no other user's operations act
   on. *)
C5_SelectTenantIsPerUser ==
    [][\A u \in Users, k \in Keys :
          send_welcome(u, k) =>
              \A v \in Users \ {u} : ActiveTenantOf(v)' = ActiveTenantOf(v)]_vars

(* C6, as the specification states it: a confirm of an id whose TTL has
   run out replies "record not found" and appends no row. *)
C6_ExpiredConfirmRepliesNotFound ==
    [][\A u \in Users, p \in expired :
          process_save_callback(u, p) =>
              (out'.text = <<MSG_NOT_FOUND>> /\ tables' = tables /\ tasks' = tasks)]_vars

(* C6, as the code behaves: an entry is written with 3600 seconds to live,
   no step gives an entry more time than it had, the time left and the time
   since the staging always add up to 3600, and an id whose 3600 seconds have
   passed is not in the store.  A confirm of such an id starts no save and
   changes nothing; it replies "record not found" when a key is selected and
   Redis answers, the generic failure when the Redis read fails, and the
   guidance message when no key is selected. *)
C6_ExpiredEntryUnreachable ==
    [][/\ \A p \in DOMAIN books :
            /\ books[p].ttl + books[p].age = TEMP_BOOK_TTL
            /\ books[p].ttl > 0
            /\ p \notin expired
       /\ \A p \in DOMAIN books' :
            IF p \in DOMAIN books
            THEN books'[p].ttl <= books[p].ttl /\ books'[p].age >= books[p].age
            ELSE books'[p].ttl = TEMP_BOOK_TTL /\ books'[p].age = 0
       /\ \A u \in Users, p \in expired :
            process_save_callback(u, p) =>
                /\ out' \in
                     IF current_db_key = None
                     THEN {SentAbout(p, <<MSG_NO_DB>>, FALSE)}
                     ELSE {SentAbout(p, <<MSG_NOT_FOUND>>, FALSE),
                           SentAbout(p, <<MSG_SAVE_EXCEPTION>>, TRUE)}
                /\ UNCHANGED <<books, tables, tasks, db_keys, current_db_key>>
      ]_vars

(* the last step was a confirm of an id whose TTL had run out, replied
   "record not found"; nothing was committed from that id *)
C6_Witness ==
    /\ out = SentAbout(out.about, <<MSG_NOT_FOUND>>, FALSE)
    /\ out.about \in expired
    /\ out.about \notin DOMAIN books
    /\ RowsFrom(out.about) = {}

(* C7: a photo that arrives while no key is selected is answered with the
   guidance message in the same step, without the Save button; no handler is
   left to download or extract, no file is written, no entry is staged and no
   id is issued. *)
C7_PhotoWithoutTenantRejected ==
    [][\A u \in Users, fid \in FileIds :
          (current_db_key = None /\ handle_photo(u, fid)) =>
              /\ out' = Sent("photo", <<MSG_NO_DB>>, NoId, FALSE)
              /\ UNCHANGED <<tasks, files, books, next_book_id, tables, db_keys,
                             current_db_key>>]_vars

(* a photo has just been rejected for want of a selected key *)
C7_Witness ==
    /\ out = Sent("photo", <<MSG_NO_DB>>, NoId, FALSE)
    /\ current_db_key = None
    /\ tasks = EmptyBag /\ files = {} /\ books = EmptyDict /\ next_book_id = 1

(* C8: a confirm of a staged id, received while key k is selected, saves the
   record read from the store for the caller at the location bound to k; a
   save that succeeds appends exactly one row there, with the five fields of
   the record (a missing one as "" or 0) and the caller's id, and leaves
   every other row of every table as it was, so the table's count grows by
   one. *)
C8_ConfirmAppendsTheStagedRecord ==
    [][/\ \A u \in Users, p \in DOMAIN books :
            (tasks' # tasks /\ process_save_callback(u, p)) =>
                /\ current_db_key \in DOMAIN db_keys
                /\ tasks' = Spawn(Task("save", "insert", u, None,
                                       db_keys[current_db_key], "", p,
                                       json_loads(books[p].value), books[p].by))
       /\ \A t \in Running :
            (tables' # tables /\ save_book(t)) =>
                LET r == t.data
                    old == tables[t.loc]
                    new == tables'[t.loc]
                    row == new[Len(new)]
                IN  /\ DOMAIN tables' = DOMAIN tables
                    /\ \A f \in DOMAIN tables \ {t.loc} : tables'[f] = tables[f]
                    /\ Len(new) = Len(old) + 1
                    /\ SubSeq(new, 1, Len(old)) = old
                    /\ row.author = (IF "author" \in DOMAIN r THEN r["author"] ELSE <<>>)
                    /\ row.title = (IF "title" \in DOMAIN r THEN r["title"] ELSE <<>>)
                    /\ row.publication_year =
                          (IF "publication_year" \in DOMAIN r
                           THEN r["publication_year"] ELSE 0)
                    /\ row.category =
                          (IF "category" \in DOMAIN r THEN r["category"] ELSE <<>>)
                    /\ row.publisher =
                          (IF "publisher" \in DOMAIN r THEN r["publisher"] ELSE <<>>)
                    /\ row.user_id = ToString(t.user)
                    /\ \A f \in DOMAIN tables :
                          \A n \in 1..Len(tables[f]) : tables[f][n].id # row.id
                    /\ out' = SentAbout(t.id, <<MSG_SAVED>>, FALSE)]_vars

(* a confirm has just succeeded: the table of the selected key holds one
   row, with the fields of the staged record, a missing category as "" *)
C8_Witness ==
    /\ out.kind = "save" /\ out.text = <<MSG_SAVED>>
    /\ \E f \in DOMAIN tables :
         /\ Len(tables[f]) = 1
         /\ tables[f][1].from = out.about
         /\ tables[f][1].title # <<>>
         /\ tables[f][1].publication_year # 0
         /\ tables[f][1].category = <<>>

(* C9: the user id of a committed row is the id of the user who sent the
   photo the record was extracted from. *)
C9_RowOwnedBySubmitter ==
    [][\A t \in Running :
          (tables' # tables /\ save_book(t)) =>
              tables'[t.loc][Len(tables'[t.loc])].user_id = ToString(t.by)]_vars

(* C10, as the specification states it: a confirm of an id that was never
   issued replies "record not found" and changes nothing. *)
C10_UnknownIdRepliesNotFound ==
    [][\A u \in Users :
          process_save_callback(u, next_book_id) =>
              /\ out'.text = <<MSG_NOT_FOUND>>
              /\ UNCHANGED <<books, tables, db_keys, current_db_key>>]_vars

(* C10, as the code behaves: a confirm of an id that was never issued
   appends no row, starts no save and changes neither the pending store, the
   registry nor the selected key; it replies "record not found" when a key is
   selected and Redis answers, the generic failure when the Redis read fails,
   and the guidance message when no key is selected. *)
C10_UnknownIdChangesNothing ==
    [][\A u \in Users :
          process_save_callback(u, next_book_id) =>
              /\ out' \in
                   IF current_db_key = None
                   THEN {SentAbout(next_book_id, <<MSG_NO_DB>>, FALSE)}
                   ELSE {SentAbout(next_book_id, <<MSG_NOT_FOUND>>, FALSE),
                         SentAbout(next_book_id, <<MSG_SAVE_EXCEPTION>>, TRUE)}
              /\ UNCHANGED <<books, tables, tasks, db_keys, current_db_key,
                             files, next_book_id>>]_vars

(* a confirm of an id no staging has issued has just been replied "record
   not found", with a key selected and another id pending *)
C10_Witness ==
    /\ out = SentAbout(next_book_id, <<MSG_NOT_FOUND>>, FALSE)
    /\ current_db_key # None
    /\ books # EmptyDict
    /\ TotalRows = 0

(* C11: a bound key stays bound to the same location through every step
   that is not an /add_key of the administrator for that same key. *)
C11_BindingsOfOtherKeysKept ==
    [][\A k \in DOMAIN db_keys :
          \/ k \in DOMAIN db_keys' /\ db_keys'[k] = db_keys[k]
          \/ \E f \in DbFileArgs : add_db_key(ADMIN_USER_ID, k, f)]_vars

(* C12: an /add_key of a user who is not the administrator is answered with
   the refusal in the same step, starts nothing, and leaves the registry,
   the tables, the pending store and the selected key as they were. *)
C12_NonAdminBindRejected ==
    [][\A u \in Users \ {ADMIN_USER_ID}, key \in Keys \cup {None},
          f \in DbFileArgs :
          add_db_key(u, key, f) =>
              /\ out' = Sent("add_key", <<MSG_ADMIN_ONLY>>, NoId, FALSE)
              /\ UNCHANGED <<db_keys, tables, books, current_db_key, tasks,
                             files, next_book_id>>]_vars

(* an /add_key has just been refused while the registry holds a binding,
   a key is selected and an entry is pending *)
C12_Witness ==
    /\ out = Sent("add_key", <<MSG_ADMIN_ONLY>>, NoId, FALSE)
    /\ db_keys # EmptyDict
    /\ current_db_key # None
    /\ books # EmptyDict

(* C13: parse_book_data returns for every text: ValueError never leaves
   it, whatever stands on the publication-year line. *)
C13_ParseNeverRaises ==
    parse_result.stage = "done" => ~parse_result.raised

(* C14: the text rendered from a record with the five fields, one
   "Label: value" line each, parses back to exactly that record. *)
C14_ParseRenderRoundTrip ==
    \A r \in Records :
        (parse_result.stage = "done" /\ parse_input = render(r)) =>
            (~parse_result.raised /\ parse_result.data = r)

(* C15: when parse_book_data returns, its result is this.  Take the lines
   of text.strip().split('\n') that contain ': ' and cut each at its first
   ': '.  A field is in the result exactly when one of the cut lines has the
   field's label before the cut, and its value is what follows the cut on
   the last such line (for the year: that number if it is all decimal
   digits, else 0).  Nothing but the five fields is in the result. *)
C15_ParseMapsLabelledLines ==
    (parse_result.stage = "done" /\ ~parse_result.raised) =>
        LET lines == split_lines(strip(parse_input))
            Cut(l) == CHOOSE i \in SepPositions(l) :
                          \A j \in SepPositions(l) : i <= j
            Labelled(lbl) ==
                {n \in 1..Len(lines) :
                    /\ SepPositions(lines[n]) # {}
                    /\ SubSeq(lines[n], 1, Cut(lines[n]) - 1) = <<lbl>>}
            LastOf(S) == CHOOSE n \in S : \A k \in S : n >= k
            After(n) == SubSeq(lines[n], Cut(lines[n]) + 2, Len(lines[n]))
            Holds(field, lbl) ==
                IF Labelled(lbl) = {}
                THEN field \notin DOMAIN parse_result.data
                ELSE /\ field \in DOMAIN parse_result.data
                     /\ LET v == After(LastOf(Labelled(lbl)))
                        IN  parse_result.data[field] =
                              IF field # "publication_year" THEN v
                              ELSE IF Len(v) > 0 /\ \A i \in 1..Len(v) : v[i] \in Digits
                                   THEN int(v) ELSE 0
        IN  /\ Holds("author", LblAuthor)
            /\ Holds("title", LblTitle)
            /\ Holds("publication_year", LblYear)
            /\ Holds("category", LblCategory)
            /\ Holds("publisher", LblPublisher)
            /\ DOMAIN parse_result.data \subseteq
                  {"author", "title", "publication_year", "category", "publisher"}

(* a text of two author lines has been parsed; the second line's value
   holds a ': ' of its own, and the result has that whole value *)
C15_Witness ==
    /\ parse_result.stage = "done" /\ ~parse_result.raised
    /\ parse_input = <<LblAuthor, ":", " ", "\n",
                       LblAuthor, ":", " ", "y", ":", " ", "z">>
    /\ parse_result.data = [author |-> <<"y", ":", " ", "z">>]

(* C16, as the specification states it: /total with a key selected
   replies the number of rows committed to the table of that key, which is
   0 when there is no such table; only a failed read of the table makes it
   reply 0 otherwise, and the step that receives the command reads no
   table. *)
C16_CountIsCommittedRows ==
    [][\A u \in Users :
          (current_db_key # None /\ send_total_books(u) /\ tasks' = tasks) =>
              LET loc == Get(db_keys, current_db_key, NoPath)
                  rows == IF loc \in DOMAIN tables THEN Len(tables[loc]) ELSE 0
              IN  out' = Sent("total", <<MSG_TOTAL, str(rows)>>, NoId, FALSE)]_vars

(* C16, as the code behaves: /total with no key selected replies the
   guidance.  With key k selected it replies 0 at once when the registry
   read fails or does not bind k; otherwise it reads the table of the
   location bound to k and replies the number of its rows, or 0 when the
   table does not exist or the read fails.  No step of it changes a table. *)
C16_CountIsRowsOrZero ==
    [][/\ \A u \in Users :
            send_total_books(u) =>
                /\ tables' = tables
                /\ IF current_db_key = None
                   THEN /\ out' = Sent("total", <<MSG_NO_DB>>, NoId, FALSE)
                        /\ tasks' = tasks
                   ELSE \/ /\ out' = Sent("total", <<MSG_TOTAL, str(0)>>, NoId, FALSE)
                           /\ tasks' = tasks
                        \/ /\ current_db_key \in DOMAIN db_keys
                           /\ out' = Silent
                           /\ tasks' = Spawn(Task("total", "count", 0, None,
                                                  db_keys[current_db_key], "",
                                                  NoId, EmptyDict, 0))
       /\ \A t \in Running :
            get_total_books(t) =>
                /\ tables' = tables
                /\ out' \in
                     {Sent("total", <<MSG_TOTAL, str(n)>>, NoId, FALSE) :
                        n \in {0} \cup (IF t.loc \in DOMAIN tables
                                        THEN {Len(tables[t.loc])} ELSE {})}
      ]_vars

(* /total has just replied 1 while the table of the selected key holds the
   one row committed to it *)
C16_Witness ==
    /\ out = Sent("total", <<MSG_TOTAL, str(1)>>, NoId, FALSE)
    /\ current_db_key \in DOMAIN db_keys
    /\ db_keys[current_db_key] \in DOMAIN tables
    /\ Len(tables[db_keys[current_db_key]]) = 1
    /\ TotalRows = 1

(* C17: the step in which the administrator's /add_key key file writes the
   registry leaves key bound to file, with ".db" appended when file lacks
   it, whether key was bound before or not. *)
C17_BindTakesEffect ==
    [][\A key \in Keys, f \in DbFileArgs :
          add_db_key(ADMIN_USER_ID, key, f) =>
              /\ key \in DOMAIN db_keys'
              /\ db_keys'[key] = with_db_suffix(f)]_vars

(* C18: /add_key replies that the key was added only when the registry
   holds the new binding. *)
C18_AddedReplyMeansBound ==
    [][\A t \in Running :
          (add_db_key_init(t) /\ out'.text[1] = MSG_KEY_ADDED) =>
              /\ t.key \in DOMAIN db_keys'
              /\ db_keys'[t.key] = t.loc]_vars

(* C19: when setex fails while a photo is staged, the handler replies the
   failure message without the Save button and ends; the pending store is
   as it was and holds nothing under the id that was generated. *)
C19_FailedStagingLeavesNothing ==
    [][\A t \in Running :
          (books' = books /\ next_book_id' # next_book_id
             /\ handle_photo_stage(t)) =>
              /\ out' = Sent("photo", <<MSG_REDIS_SAVE_ERROR>>, NoId, FALSE)
              /\ next_book_id \notin DOMAIN books'
              /\ tasks' = Finish(t)
              /\ UNCHANGED <<tables, db_keys, current_db_key>>]_vars

(* a staging has just failed at setex: the id was used up, nothing is
   pending, no handler is left *)
C19_Witness ==
    /\ out = Sent("photo", <<MSG_REDIS_SAVE_ERROR>>, NoId, FALSE)
    /\ next_book_id = 2
    /\ books = EmptyDict
    /\ tasks = EmptyBag

(* C20: /start with a key the registry binds selects that key, and when
   the handler has replied the table of the key's location exists; /start
   with no key, or with a key the registry does not bind, replies guidance
   and leaves the selected key, the registry, the pending store and the
   tables as they were. *)
C20_SelectTenant ==
    [][/\ \A u \in Users, k \in Keys :
            (k \in DOMAIN db_keys /\ send_welcome(u, k)) => current_db_key' = k
       /\ \A t \in Running :
            send_welcome_init(t) => t.loc \in DOMAIN tables'
       /\ \A u \in Users, arg \in Keys \cup {None} :
            (arg \notin DOMAIN db_keys /\ send_welcome(u, arg)) =>
                /\ out'.text \in {<<MSG_NEED_KEY>>, <<MSG_BAD_KEY>>}
                /\ UNCHANGED <<current_db_key, db_keys, books, tables>>]_vars

(* C21: whenever no confirm handler is in progress, no id is in the
   pending store while a row committed from it is in a table. *)
C21_PendingOrCommitted ==
    (\A t \in Running : t.kind # "save") =>
        \A p \in DOMAIN books : RowsFrom(p) = {}

(* C22, as the code behaves: a confirm that fails at save_book appends
   nothing and leaves the pending store as it was; a later confirm of that
   id, made with a key selected while the entry is still in the store, finds
   the record (it never replies "record not found") and, unless the Redis
   read fails or the location of the key cannot be resolved, starts the save
   of that record; and a save that succeeds adds exactly one row committed
   from the id, so the failed attempt and the retry together append one
   row. *)
C22_FailedConfirmCanBeRetried ==
    [][/\ \A t \in Running :
            (out'.text = <<MSG_SAVE_FAILED>> /\ save_book(t)) =>
                /\ books' = books
                /\ tables' = tables
                /\ t.id \in failed'
       /\ \A u \in Users, p \in failed \cap DOMAIN books :
            (current_db_key # None /\ process_save_callback(u, p)) =>
                /\ out'.text # <<MSG_NOT_FOUND>>
                /\ books' = books
                /\ tasks' # tasks =>
                      \E t \in BagToSet(tasks') :
                          /\ tasks' = Spawn(t)
                          /\ t.id = p
                          /\ t.data = json_loads(books[p].value)
       /\ \A t \in Running :
            (tables' # tables /\ save_book(t)) =>
                Cardinality(RowsFrom(t.id))' = Cardinality(RowsFrom(t.id)) + 1
      ]_vars

(* C22, as the specification states it: after a confirm of an id has
   failed at save_book, every later confirm of the id received while its
   entry is in the store starts the save of the record. *)
C22_RetryAlwaysStartsSave ==
    [][\A u \in Users, p \in failed \cap DOMAIN books :
          process_save_callback(u, p) =>
              (out' = Silent /\ tasks' # tasks /\ books' = books)]_vars

(* a confirm of an id has just succeeded after an earlier confirm of it had
   failed at save_book: one row is committed from the id *)
C22_Witness ==
    /\ out = SentAbout(out.about, <<MSG_SAVED>>, FALSE)
    /\ out.about \in failed
    /\ Cardinality(RowsFrom(out.about)) = 1
    /\ TotalRows = 1

(* C23: every step that ends a confirm handler has sent the callback's
   answer. *)
C23_ConfirmAlwaysAnswered ==
    [][/\ \A u \in Users, p \in 1..next_book_id :
            (tasks' = tasks /\ process_save_callback(u, p)) => out'.answered
       /\ \A t \in Running :
            (tables' = tables /\ save_book(t)) => out'.answered
       /\ \A t \in Running :
            process_save_callback_delete(t) => out'.answered]_vars

(* C24: a reply that carries the Save button for an id is sent by the step
   that has just written the pending entry of that id, with the TTL and the
   parsed record of the replied text as its value; the id is the one issued
   by that step, so every button refers to an id that was staged. *)
C24_ButtonOnlyAfterStaging ==
    [][out'.markup # NoId =>
          /\ out'.markup = next_book_id
          /\ out'.markup \in IssuedIds'
          /\ out'.markup \notin DOMAIN books
          /\ out'.markup \in DOMAIN books'
          /\ books'[out'.markup].ttl = TEMP_BOOK_TTL
          /\ books'[out'.markup].age = 0
          /\ books'[out'.markup].value =
                 json_dumps(parse_book_data(out'.text).data)]_vars

(* the reply with the Save button of a staged id has just been sent *)
C24_Witness ==
    /\ out.kind = "photo"
    /\ out.markup # NoId
    /\ out.text = TextBook
    /\ out.markup \in DOMAIN books
    /\ books[out.markup].ttl = TEMP_BOOK_TTL

(* C25: a save step whose INSERT fails leaves every table as it was, replies
   with the failure message and records the failure; a confirm whose
   location cannot be resolved does the same without starting a save; the
   success message is sent only by a step that appended a row. *)
C25_FailedAppendReported ==
    [][/\ \A t \in Running :
            (tables' = tables /\ save_book(t)) =>
                /\ out' = SentAbout(t.id, <<MSG_SAVE_FAILED>>, TRUE)
                /\ t.id \in failed'
       /\ \A u \in Users, p \in DOMAIN books :
            (/\ current_db_key # None
             /\ Get(db_keys, current_db_key, NoPath) = NoPath
             /\ process_save_callback(u, p)) =>
                /\ out'.text \in {<<MSG_SAVE_FAILED>>, <<MSG_SAVE_EXCEPTION>>}
                /\ out'.answered
                /\ tasks' = tasks
                /\ tables' = tables
       /\ out'.text = <<MSG_SAVED>> =>
            /\ tables' # tables
            /\ TotalRows' = TotalRows + 1]_vars

(* a confirm has just been refused by save_book while the ledger holds a
   committed row *)
C25_Witness ==
    /\ out = SentAbout(out.about, <<MSG_SAVE_FAILED>>, TRUE)
    /\ out.about \in failed
    /\ TotalRows = 1

(* C26: every step keeps every table and keeps its rows as a prefix of the
   table after the step: no row is removed and no committed row changes. *)
C26_LedgerAppendOnly ==
    [][\A f \in DOMAIN tables :
          /\ f \in DOMAIN tables'
          /\ Len(tables'[f]) >= Len(tables[f])
          /\ SubSeq(tables'[f], 1, Len(tables[f])) = tables[f]]_vars

(* a key has just been selected, and its table initialised again, while the
   ledger holds a committed row *)
C26_Witness ==
    /\ out.kind = "start"
    /\ current_db_key # None
    /\ TotalRows >= 1

(* C27: the pending entry's value holds record fields only; a confirm that
   starts a save targets the location the selected key is bound to at that
   moment, wherever the entry was staged, and the save appends its row to
   that table and to no other. *)
C27_ConfirmUsesTenantOfConfirmTime ==
    [][/\ \A p \in DOMAIN books' :
            DOMAIN json_loads(books'[p].value) \subseteq
                {"author", "title", "publication_year", "category", "publisher"}
       /\ \A u \in Users, p \in DOMAIN books :
            (tasks' # tasks /\ process_save_callback(u, p)) =>
                \E t \in BagToSet(tasks') :
                    /\ tasks' = Spawn(t)
                    /\ t.id = p
                    /\ current_db_key \in DOMAIN db_keys
                    /\ t.loc = db_keys[current_db_key]
       /\ \A t \in Running :
            (tables' # tables /\ save_book(t)) =>
                /\ tables'[t.loc] =
                       Append(tables[t.loc], book_row(t.data, str(t.user), t.id))
                /\ \A f \in DOMAIN tables : f # t.loc => tables'[f] = tables[f]]_vars

(* a record staged while the selected key was bound to one location has been
   committed to the table of another location *)
C27_Witness ==
    /\ out = SentAbout(out.about, <<MSG_SAVED>>, FALSE)
    /\ out.about \in DOMAIN books
    /\ books[out.about].at # NoPath
    /\ \E r \in RowsFrom(out.about) : r[1] # books[out.about].at

(* C28: a confirm received while no key is selected replies with the
   guidance message and changes nothing else: the entry stays with its TTL,
   no table changes and no save is started. *)
C28_ConfirmWithoutTenantChangesNothing ==
    [][\A u \in Users, p \in DOMAIN books :
          (current_db_key = None /\ process_save_callback(u, p)) =>
              /\ out' = SentAbout(p, <<MSG_NO_DB>>, FALSE)
              /\ UNCHANGED <<current_db_key, db_keys, books, tables, tasks,
                             failed, next_book_id>>]_vars

(* the guidance message has just answered the confirm of a staged id *)
C28_Witness ==
    /\ out = SentAbout(out.about, <<MSG_NO_DB>>, FALSE)
    /\ out.about \in DOMAIN books
    /\ books[out.about].ttl = TEMP_BOOK_TTL
    /\ current_db_key = None

(* C30: when no photo handler is running, no downloaded image is on disk. *)
C30_NoScratchFileAfterPhoto ==
    (\A t \in Running : t.kind # "photo") => files = {}

(* C29: after every sequence of bind, select, photo and confirm events both
   implementations have sent the same reply last and hold the same committed
   rows. *)
C29_SameRepliesAndRows ==
    /\ mem.out = out
    /\ Committed(mem.tables) = Committed(tables)

====
